---- MODULE Spec2Model ----
(***************************************************************************)
(* Model of the AAA plugin loader of danos/aaa.                            *)
(*                                                                         *)
(* The repository holds two generations of the same loader:                *)
(*   generation 1  src/aaa.go            host ABI version 1, Setup() is    *)
(*                                        called after the file loop on    *)
(*                                        every map entry, result ignored  *)
(*   generation 2  src/unnamed/part_000  host ABI version 2, Setup() is    *)
(*                                        called per descriptor inside     *)
(*                                        guard.CatchPanicErrorOnly        *)
(* The variable gen selects which LoadAAA runs.                            *)
(***************************************************************************)
EXTENDS Integers, Sequences, FiniteSets, TLC

\* ------------------------------------------------------------------ bounds
\* number of directory entries in the configuration directory
MaxFiles == 2

\* --------------------------------------------------------------- constants
\* part_000:26  const AAAPluginAPIVersion = 2
AAAPluginAPIVersion == 2
\* aaa.go:107   if *version != 1
AAAPluginAPIVersionV1 == 1

\* part_000:23 / aaa.go:101
aaaPluginAPIVersionSym == "AAAPluginAPIVersion"

\* part_000:24,109  fmt.Sprintf("AAAPluginV%d", ver); aaa.go:112 "AAAPluginV1"
aaaPluginImplSym(ver) == <<"AAAPluginV", ver>>

\* the plugin names that descriptors may declare
Names == {"tacplus", "radius"}

Generations == {1, 2}

\* the ABI version the host of generation g supports
HostVersion(g) == IF g = 1 THEN AAAPluginAPIVersionV1 ELSE AAAPluginAPIVersion

\* ---------------------------------------------------------- Go nil values
NilErr == "nil"
NilPlugin == "nil"
NilProtocol == [Cfg |-> [Name |-> "", CmdAcct |-> FALSE, CmdAuthor |-> FALSE],
                Plugin |-> NilPlugin]

\* -------------------------------------------------------- directory model
\* AAAPluginConfig values a descriptor file may decode to
AAAPluginConfig == [Name : Names, CmdAcct : BOOLEAN, CmdAuthor : BOOLEAN]

ZeroCfg == [Name |-> "", CmdAcct |-> FALSE, CmdAuthor |-> FALSE]

\* the descriptor configurations drawn as inputs: both names, and for each
\* name two different feature settings
InputCfgs == {c \in AAAPluginConfig : c.CmdAcct # c.CmdAuthor}

\* the content of the entry that lacks the .json extension: a well-formed
\* descriptor, so that only the extension keeps it out
StrayCfg == [Name |-> "tacplus", CmdAcct |-> TRUE, CmdAuthor |-> TRUE]

\* kinds of directory entry: a subdirectory named like a descriptor, a
\* regular file named N.json.bak, a descriptor that cannot be opened, one
\* that does not decode, and the well-formed descriptors
EntryKinds == {[k |-> "subdir"], [k |-> "notjson"], [k |-> "unreadable"],
               [k |-> "badjson"]}
              \cup {[k |-> "ok", cfg |-> c] : c \in InputCfgs}

\* the directory entry number i of kind kd: its file name (a token
\* sequence), its mode, whether os.Open succeeds, whether it decodes
Entry(i, kd) ==
  [fname   |-> IF kd.k = "notjson" THEN <<i, ".", "json", ".", "bak">>
                                   ELSE <<i, ".", "json">>,
   regular |-> kd.k # "subdir",
   opens   |-> kd.k # "unreadable",
   decodes |-> kd.k \in {"notjson", "ok"},
   cfg     |-> IF kd.k = "ok" THEN kd.cfg
               ELSE IF kd.k = "notjson" THEN StrayCfg ELSE ZeroCfg]

\* filepath.Ext: the suffix beginning at the final dot of the name
RECURSIVE LastDot(_, _)
LastDot(s, i) == IF i = 0 THEN 0
                 ELSE IF s[i] = "." THEN i ELSE LastDot(s, i - 1)

Ext(s) == LET d == LastDot(s, Len(s))
          IN IF d = 0 THEN <<>> ELSE SubSeq(s, d, Len(s))

\* ----------------------------------------------------------- module model
\* a symbol value: type is "absent" when Lookup fails
Absent == [type |-> "absent", val |-> 0]
U32(v) == [type |-> "*uint32", val |-> v]
Impl == [type |-> "AAAPlugin", val |-> 0]
Other == [type |-> "other", val |-> 0]

\* versions for which a module may export an entry point
ImplVersions == 0..3

\* a module: whether plugin.Open succeeds, and its symbol table
Module(opens, ver, impl) ==
  [opens |-> opens, version |-> ver, impl |-> impl]

\* plugin.Open(AAAPluginsDir + name + ".so"): the module found under that
\* path; the same path always yields the same module and the same objects
PluginOpen(mods, name) ==
  [path |-> name, opens |-> mods[name].opens,
   version |-> mods[name].version, impl |-> mods[name].impl]

\* the modules drawn as inputs for a host supporting version h
ModuleKinds(h) ==
  LET all == [v \in ImplVersions |-> Impl]
  IN { Module(FALSE, U32(h), all),
       Module(TRUE, Absent, all),
       Module(TRUE, Other, all),
       Module(TRUE, U32(h - 1), all),
       Module(TRUE, U32(h + 1), all),
       Module(TRUE, U32(h), [all EXCEPT ![h] = Absent]),
       Module(TRUE, U32(h), [all EXCEPT ![h] = Other]),
       Module(TRUE, U32(h), all) }

\* plugin.Lookup
Lookup(p, sym) ==
  IF sym = aaaPluginAPIVersionSym THEN p.version
  ELSE IF sym[2] \in ImplVersions THEN p.impl[sym[2]] ELSE Absent

\* ------------------------------------------------------------ ABI resolver
\* mutant: a newer plugin is accepted
lookupPluginImpl_AcceptNewer(name, p, ver) ==
  LET symPluginVersion == Lookup(p, aaaPluginAPIVersionSym)
      symPlugin == Lookup(p, aaaPluginImplSym(ver))
      s1 == <<"Lookup:AAAPluginAPIVersion", "assert:*uint32">>
      s2 == s1 \o <<"compare">>
      s4 == s2 \o <<"Lookup:AAAPluginV", "assert:AAAPlugin">>
  IN IF symPluginVersion.type # "*uint32"
       THEN [plugin |-> NilPlugin, steps |-> s1,
             err |-> "Unexpected type from AAAPluginAPIVersion symbol"]
     ELSE IF symPluginVersion.val < ver
       THEN [plugin |-> NilPlugin, steps |-> s2,
             err |-> "Unsupported AAAPluginAPIVersion for plugin"]
     ELSE IF symPlugin.type # "AAAPlugin"
       THEN [plugin |-> NilPlugin, steps |-> s4,
             err |-> "Could not lookup plugin V"]
     ELSE [plugin |-> p.path, steps |-> s4, err |-> NilErr]

\* part_000:96-121  lookupPluginImpl(name, p, ver)
\* result: the implementation object (identified by the module it lives in),
\* the error, and the steps performed in order
lookupPluginImpl(name, p, ver) ==
  LET symPluginVersion == Lookup(p, aaaPluginAPIVersionSym)
      symPlugin == Lookup(p, aaaPluginImplSym(ver))
      s1 == <<"Lookup:AAAPluginAPIVersion", "assert:*uint32">>
      s2 == s1 \o <<"compare">>
      s3 == s2 \o <<"Lookup:AAAPluginV">>
      s4 == s3 \o <<"assert:AAAPlugin">>
  IN IF symPluginVersion.type # "*uint32"
       THEN [plugin |-> NilPlugin, steps |-> s1,
             err |-> "Unexpected type from AAAPluginAPIVersion symbol"]
     ELSE IF symPluginVersion.val # ver
       THEN [plugin |-> NilPlugin, steps |-> s2,
             err |-> "Unsupported AAAPluginAPIVersion for plugin"]
     ELSE IF symPlugin.type = "absent"
       THEN [plugin |-> NilPlugin, steps |-> s3,
             err |-> "Could not lookup plugin V"]
     ELSE IF symPlugin.type # "AAAPlugin"
       THEN [plugin |-> NilPlugin, steps |-> s4,
             err |-> "Unexpected type from AAAPluginV symbol"]
     ELSE [plugin |-> p.path, steps |-> s4, err |-> NilErr]

\* mutant: the result of the version lookup is dereferenced unchecked, a
\* missing symbol reading as version 0
lookupPluginImplV1_Unchecked(name, p) ==
  LET symPluginVersion == Lookup(p, aaaPluginAPIVersionSym)
      symPluginV1 == Lookup(p, aaaPluginImplSym(AAAPluginAPIVersionV1))
      s1 == <<"Lookup:AAAPluginAPIVersion", "assert:*uint32">>
      s2 == s1 \o <<"compare">>
      s4 == s2 \o <<"Lookup:AAAPluginV", "assert:AAAPlugin">>
  IN IF symPluginVersion.val # AAAPluginAPIVersionV1
       THEN [plugin |-> NilPlugin, steps |-> s2,
             err |-> "Unsupported AAAPluginAPIVersion for plugin"]
     ELSE IF symPluginV1.type # "AAAPlugin"
       THEN [plugin |-> NilPlugin, steps |-> s4,
             err |-> "Unexpected type from AAAPluginV symbol"]
     ELSE [plugin |-> p.path, steps |-> s4, err |-> NilErr]

\* aaa.go:101-122  the same resolution, written inline in generation 1 with
\* the literal version 1 and the literal symbol AAAPluginV1
lookupPluginImplV1(name, p) ==
  LET symPluginVersion == Lookup(p, aaaPluginAPIVersionSym)
      symPluginV1 == Lookup(p, aaaPluginImplSym(AAAPluginAPIVersionV1))
      s1 == <<"Lookup:AAAPluginAPIVersion", "assert:*uint32">>
      s2 == s1 \o <<"compare">>
      s3 == s2 \o <<"Lookup:AAAPluginV">>
      s4 == s3 \o <<"assert:AAAPlugin">>
  IN IF symPluginVersion.type # "*uint32"
       THEN [plugin |-> NilPlugin, steps |-> s1,
             err |-> "Unexpected type from AAAPluginAPIVersion symbol"]
     ELSE IF symPluginVersion.val # AAAPluginAPIVersionV1
       THEN [plugin |-> NilPlugin, steps |-> s2,
             err |-> "Unsupported AAAPluginAPIVersion for plugin"]
     ELSE IF symPluginV1.type = "absent"
       THEN [plugin |-> NilPlugin, steps |-> s3,
             err |-> "Could not lookup plugin V"]
     ELSE IF symPluginV1.type # "AAAPlugin"
       THEN [plugin |-> NilPlugin, steps |-> s4,
             err |-> "Unexpected type from AAAPluginV symbol"]
     ELSE [plugin |-> p.path, steps |-> s4, err |-> NilErr]

\* the resolver of generation g
Resolve(g, name, p) ==
  IF g = 1 THEN lookupPluginImplV1(name, p)
           ELSE lookupPluginImpl(name, p, AAAPluginAPIVersion)

\* part_000:123-153 / aaa.go:80-128  loadAAAPlugin(fn), fn the entry e
\* result: (name, protocol, err) and the steps performed in order
loadAAAPlugin(g, mods, e) ==
  LET cfg == e.cfg
      aaaPlugin == PluginOpen(mods, cfg.Name)
      r == Resolve(g, cfg.Name, aaaPlugin)
      t1 == <<"os.Open">>
      t2 == t1 \o <<"Decode">>
      t3 == t2 \o <<"plugin.Open">>
  IN IF ~e.opens
       THEN [name |-> "", protocol |-> NilProtocol, steps |-> t1,
             err |-> "Failed opening plugin config file"]
     ELSE IF ~e.decodes
       THEN [name |-> "", protocol |-> NilProtocol, steps |-> t2,
             err |-> "Failed to decode plugin config file"]
     ELSE IF ~aaaPlugin.opens
       THEN [name |-> "", protocol |-> NilProtocol, steps |-> t3,
             err |-> "Could not load plugin"]
     ELSE IF r.err # NilErr
       THEN [name |-> "", protocol |-> NilProtocol, steps |-> t3 \o r.steps,
             err |-> r.err]
     ELSE [name |-> cfg.Name,
           protocol |-> [Cfg |-> cfg, Plugin |-> r.plugin],
           steps |-> t3 \o r.steps, err |-> NilErr]

\* --------------------------------------------------------- lifecycle guard
\* what a plugin's Setup() may do
SetupOutcomes == {"nil", "error", "panic"}

\* mutant: the guard reports a fault whatever the function returned
CatchPanicErrorOnly_Always(outcome) == "recovered panic"

\* part_000:179-181  guard.CatchPanicErrorOnly(func() error {...}): a panic
\* raised by the function is recovered and returned as an error
CatchPanicErrorOnly(outcome) ==
  IF outcome = "panic" THEN "recovered panic" ELSE outcome

\* ------------------------------------------------------------------ state
VARIABLES
  gen,        \* which generation of LoadAAA runs
  dir,        \* state of AAAPluginsCfgDir: "ok", "noopen", "nolist"
  modules,    \* the module found under AAAPluginsDir for each name
  setupMay,   \* per implementation object, what its Setup() may do
  listing,    \* the entries of the directory, in the order Readdir gives
  run,        \* 1 for the first LoadAAA of the process, 2 for a reload
  prev,       \* what the previous LoadAAA returned
  pc,         \* position of LoadAAA
  idx,        \* index of the next entry of files
  Protocols,  \* aaa.Protocols: function from a set of names to AAAProtocol
  setupDone,  \* generation 1: map entries the Setup loop has visited
  ret,        \* what LoadAAA returned: (*AAA, error)
  setupLog,   \* per implementation object, the outcomes of its Setup calls
  hist,       \* per directory entry: the steps loadAAAPlugin performed, the
              \* outcome of the Setup call made for it, whether it was stored
  logged      \* the messages given to log.Print, with the entry they concern

vars == <<gen, dir, modules, setupMay, listing, run, prev, pc, idx, Protocols,
          setupDone, ret, setupLog, hist, logged>>

\* what no step of one LoadAAA pass changes
env == <<gen, dir, modules, setupMay, listing, run, prev>>

EmptyMap == [n \in {} |-> NilProtocol]

\* mutant: a name already in the map keeps its first protocol
MapSet_KeepFirst(m, k, v) ==
  [n \in (DOMAIN m) \cup {k} |-> IF n \in DOMAIN m THEN m[n] ELSE v]

\* mutant: storing a protocol forgets the ones stored before
MapSet_Forget(m, k, v) == [n \in {k} |-> v]

\* m[k] = v of a Go map
MapSet(m, k, v) == [n \in (DOMAIN m) \cup {k} |-> IF n = k THEN v ELSE m[n]]

NoReturn == [isNil |-> TRUE, aaa |-> EmptyMap, err |-> "none"]

NoHist == [steps |-> <<>>, setup |-> "none", stored |-> FALSE]

\* the state at the entry of LoadAAA
Entering ==
  /\ pc = "start"
  /\ idx = 1
  /\ Protocols = EmptyMap
  /\ setupDone = {}
  /\ ret = NoReturn
  /\ setupLog = [n \in Names |-> <<>>]
  /\ hist = [i \in 1..MaxFiles |-> NoHist]
  /\ logged = <<>>

Init ==
  /\ gen \in Generations
  /\ dir \in {"ok", "noopen", "nolist"}
  /\ \E k \in [1..MaxFiles -> EntryKinds] :
        listing = [i \in 1..MaxFiles |-> Entry(i, k[i])]
  /\ modules \in [Names -> ModuleKinds(HostVersion(gen))]
  /\ setupMay = [n \in Names |-> SetupOutcomes]
  /\ run = 1
  /\ prev = NoReturn
  /\ Entering

\* part_000:160-163 / aaa.go:135-138  os.Open(AAAPluginsCfgDir) fails
OpenDirFail ==
  /\ pc = "start" /\ dir = "noopen"
  /\ pc' = "returned"
  /\ ret' = [isNil |-> TRUE, aaa |-> EmptyMap, err |-> "open"]
  /\ UNCHANGED <<env, idx, Protocols, setupDone, setupLog, hist, logged>>

\* part_000:158-164 / aaa.go:133-139  make the map, open the directory
OpenDir ==
  /\ pc = "start" /\ dir # "noopen"
  /\ pc' = "opened"
  /\ Protocols' = EmptyMap
  /\ UNCHANGED <<env, idx, setupDone, ret, setupLog, hist, logged>>

\* part_000:166-169 / aaa.go:141-144  dir.Readdir(-1) fails
ReaddirFail ==
  /\ pc = "opened" /\ dir = "nolist"
  /\ pc' = "returned"
  /\ ret' = [isNil |-> TRUE, aaa |-> EmptyMap, err |-> "readdir"]
  /\ UNCHANGED <<env, idx, Protocols, setupDone, setupLog, hist, logged>>

\* part_000:166 / aaa.go:141  files, err := dir.Readdir(-1)
Readdir ==
  /\ pc = "opened" /\ dir = "ok"
  /\ pc' = "loop"
  /\ idx' = 1
  /\ UNCHANGED <<env, Protocols, setupDone, ret, setupLog, hist, logged>>

InLoop == pc = "loop" /\ idx <= Len(listing)

\* mutant: the extension filter is left out
IsCandidate_AnyRegular(file) == file.regular

\* part_000:172-173 / aaa.go:147-148  the two filters of the file loop
IsCandidate(file) == file.regular /\ Ext(file.fname) = <<".", "json">>

\* an entry that is not a regular file
SkipNotRegular ==
  /\ InLoop /\ ~listing[idx].regular
  /\ idx' = idx + 1
  /\ UNCHANGED <<env, pc, Protocols, setupDone, ret, setupLog, hist, logged>>

\* a regular file without the .json extension
SkipNotJson ==
  /\ InLoop /\ listing[idx].regular /\ ~IsCandidate(listing[idx])
  /\ idx' = idx + 1
  /\ UNCHANGED <<env, pc, Protocols, setupDone, ret, setupLog, hist, logged>>

\* mutant: a descriptor that fails to load makes LoadAAA return the error
LoadFail_Abort ==
  /\ pc = "loop" /\ idx <= Len(listing)
  /\ listing[idx].regular /\ Ext(listing[idx].fname) = <<".", "json">>
  /\ LET r == loadAAAPlugin(gen, modules, listing[idx])
     IN /\ r.err # NilErr
        /\ ret' = [isNil |-> TRUE, aaa |-> EmptyMap, err |-> r.err]
        /\ hist' = [hist EXCEPT ![idx].steps = r.steps]
  /\ pc' = "returned"
  /\ UNCHANGED <<env, idx, Protocols, setupDone, setupLog, logged>>

\* part_000:174-178 / aaa.go:149-153  loadAAAPlugin returned an error
LoadFail ==
  /\ InLoop /\ IsCandidate(listing[idx])
  /\ LET r == loadAAAPlugin(gen, modules, listing[idx])
     IN /\ r.err # NilErr
        /\ logged' = Append(logged, [file |-> idx, msg |-> r.err])
        /\ hist' = [hist EXCEPT ![idx].steps = r.steps]
  /\ idx' = idx + 1
  /\ UNCHANGED <<env, pc, Protocols, setupDone, ret, setupLog>>

\* aaa.go:149-154  generation 1: store the protocol
RegisterV1 ==
  /\ gen = 1
  /\ InLoop /\ IsCandidate(listing[idx])
  /\ LET r == loadAAAPlugin(gen, modules, listing[idx])
     IN /\ r.err = NilErr
        /\ Protocols' = MapSet(Protocols, r.name, r.protocol)
        /\ hist' = [hist EXCEPT ![idx].steps = r.steps, ![idx].stored = TRUE]
  /\ idx' = idx + 1
  /\ UNCHANGED <<env, pc, setupDone, ret, setupLog, logged>>

\* part_000:174-186  generation 2: guarded Setup, then store the protocol
\* or log the error and continue
SetupAndRegister ==
  /\ gen = 2
  /\ InLoop /\ IsCandidate(listing[idx])
  /\ LET r == loadAAAPlugin(gen, modules, listing[idx])
     IN /\ r.err = NilErr
        /\ \E o \in setupMay[r.protocol.Plugin] :
             LET err == CatchPanicErrorOnly(o)
             IN /\ setupLog' = [setupLog EXCEPT
                                  ![r.protocol.Plugin] = Append(@, o)]
                /\ IF err # NilErr
                     THEN /\ logged' = Append(logged,
                                [file |-> idx, msg |-> "Error setting up plugin"])
                          /\ hist' = [hist EXCEPT ![idx].steps = r.steps,
                                                  ![idx].setup = o]
                          /\ UNCHANGED Protocols
                     ELSE /\ Protocols' = MapSet(Protocols, r.name, r.protocol)
                          /\ hist' = [hist EXCEPT ![idx].steps = r.steps,
                                                  ![idx].setup = o,
                                                  ![idx].stored = TRUE]
                          /\ UNCHANGED logged
  /\ idx' = idx + 1
  /\ UNCHANGED <<env, pc, setupDone, ret>>

\* aaa.go:157-159  generation 1: the file loop is over, range over the map
EndLoopV1 ==
  /\ gen = 1
  /\ pc = "loop" /\ idx > Len(listing)
  /\ pc' = "setup"
  /\ UNCHANGED <<env, idx, Protocols, setupDone, ret, setupLog, hist, logged>>

\* aaa.go:159-161  p.Plugin.Setup() on one more map entry (Go ranges over a
\* map in no fixed order); the result is dropped, a panic leaves LoadAAA
SetupV1 ==
  /\ pc = "setup"
  /\ \E n \in (DOMAIN Protocols) \ setupDone :
       \E o \in setupMay[Protocols[n].Plugin] :
         /\ setupLog' = [setupLog EXCEPT ![Protocols[n].Plugin] = Append(@, o)]
         /\ setupDone' = setupDone \cup {n}
         /\ pc' = IF o = "panic" THEN "panicked" ELSE "setup"
  /\ UNCHANGED <<env, idx, Protocols, ret, hist, logged>>

\* aaa.go:163  return &aaa, nil
ReturnV1 ==
  /\ pc = "setup" /\ setupDone = DOMAIN Protocols
  /\ pc' = "returned"
  /\ ret' = [isNil |-> FALSE, aaa |-> Protocols, err |-> NilErr]
  /\ UNCHANGED <<env, idx, Protocols, setupDone, setupLog, hist, logged>>

\* part_000:191  return &aaa, nil
Return ==
  /\ gen = 2
  /\ pc = "loop" /\ idx > Len(listing)
  /\ pc' = "returned"
  /\ ret' = [isNil |-> FALSE, aaa |-> Protocols, err |-> NilErr]
  /\ UNCHANGED <<env, idx, Protocols, setupDone, setupLog, hist, logged>>

Next ==
  \/ OpenDirFail
  \/ OpenDir
  \/ ReaddirFail
  \/ Readdir
  \/ SkipNotRegular
  \/ SkipNotJson
  \/ LoadFail
  \/ RegisterV1
  \/ SetupAndRegister
  \/ EndLoopV1
  \/ SetupV1
  \/ ReturnV1
  \/ Return

Spec == Init /\ [][Next]_vars

\* ------------------------------------------------------------------ reload
\* the plugins whose Setup() always does the same thing
Deterministic == [Names -> {{o} : o \in SetupOutcomes}]

\* a module whose version symbol differs from the host's, and a good one
ReloadModuleKinds(h) ==
  LET all == [v \in ImplVersions |-> Impl]
  IN {Module(TRUE, U32(h + 1), all), Module(TRUE, U32(h), all)}

\* an unchanged directory of descriptors and plugins with fixed behaviour
InitReload ==
  /\ gen \in Generations
  /\ dir \in {"ok", "noopen", "nolist"}
  /\ \E k \in [1..MaxFiles -> EntryKinds] :
        listing = [i \in 1..MaxFiles |-> Entry(i, k[i])]
  /\ modules \in [Names -> ReloadModuleKinds(HostVersion(gen))]
  /\ setupMay \in Deterministic
  /\ run = 1
  /\ prev = NoReturn
  /\ Entering

\* LoadAAA is called again ("on startup and reload") on the same directory;
\* Readdir may list the same entries in another order
Reload ==
  /\ pc = "returned" /\ run = 1
  /\ run' = 2
  /\ prev' = ret
  /\ \E p \in Permutations(1..Len(listing)) :
        listing' = [i \in 1..Len(listing) |-> listing[p[i]]]
  /\ pc' = "start"
  /\ idx' = 1
  /\ Protocols' = EmptyMap
  /\ setupDone' = {}
  /\ ret' = NoReturn
  /\ setupLog' = [n \in Names |-> <<>>]
  /\ hist' = [i \in 1..MaxFiles |-> NoHist]
  /\ logged' = <<>>
  /\ UNCHANGED <<gen, dir, modules, setupMay>>

NextReload == Next \/ Reload

SpecReload == InitReload /\ [][NextReload]_vars

\* ------------------------------------------------------- claim vocabulary
Files == 1..Len(listing)

\* the loop has dealt with entry i in the current pass
Processed(i) == idx > i

\* the elements of a sequence
Range(q) == {q[k] : k \in DOMAIN q}

Returned == pc = "returned"

\* LoadAAA returned a registry
ReturnedRegistry == Returned /\ ~ret.isNil

\* entry i is a regular .json file that opens and decodes
Decoded(i) ==
  /\ listing[i].regular /\ Ext(listing[i].fname) = <<".", "json">>
  /\ listing[i].opens /\ listing[i].decodes

\* the module of name n opens and declares the host's ABI version
VersionOK(n) ==
  /\ modules[n].opens
  /\ modules[n].version.type = "*uint32"
  /\ modules[n].version.val = HostVersion(gen)

\* ... and its entry point for that version is an AAAPlugin
PassesABI(n) ==
  VersionOK(n) /\ modules[n].impl[HostVersion(gen)].type = "AAAPlugin"

\* descriptor i decodes and its module passes ABI resolution
Loadable(i) == Decoded(i) /\ PassesABI(listing[i].cfg.Name)

\* the loadable descriptors declaring name n
Declaring(n) == {i \in Files : Loadable(i) /\ listing[i].cfg.Name = n}

\* the module of descriptor i declares another version than the host's
VersionMismatch(i) ==
  LET m == modules[listing[i].cfg.Name]
  IN Decoded(i) /\ m.opens /\ m.version.type = "*uint32"
     /\ m.version.val # HostVersion(gen)

\* the module of descriptor i has no usable version symbol
VersionUntyped(i) ==
  LET m == modules[listing[i].cfg.Name]
  IN Decoded(i) /\ m.opens /\ m.version.type # "*uint32"

Max(S) == CHOOSE x \in S : \A y \in S : y <= x

\* --------------------------------------------------------------------- C1
\* C1 (as claimed): every entry of a returned registry passed ABI
\* resolution and completed Setup() without error; read in the weakest way:
\* some Setup() call on the entry's plugin returned nil.
C1_RegistryOnlySetUp ==
  ReturnedRegistry =>
    \A n \in DOMAIN ret.aaa :
      /\ PassesABI(n)
      /\ "nil" \in Range(setupLog[ret.aaa[n].Plugin])

\* --------------------------------------------------------------------- C2
\* C2 (as claimed): a Setup() that panics never takes LoadAAA down; LoadAAA
\* then returns a registry and a nil error, without the descriptor whose
\* Setup() panicked and with every descriptor whose Setup() returned nil.
C2_PanicContained ==
  /\ pc # "panicked"
  /\ (Returned /\ \E n \in Names : "panic" \in Range(setupLog[n])) =>
       /\ ~ret.isNil /\ ret.err = NilErr
       /\ \A i \in Files :
            /\ hist[i].setup = "panic" => ~hist[i].stored
            /\ (Loadable(i) /\ hist[i].setup = "nil") =>
                 listing[i].cfg.Name \in DOMAIN ret.aaa

\* --------------------------------------------------------------------- C3
\* C3: once the loop has dealt with a descriptor whose module declares a
\* version other than the host's, nothing was stored for it, the
\* entry-point symbol was not looked up, the mismatch was logged, its name
\* is not in the map, and a LoadAAA that returns a registry returns a nil
\* error and a registry without that name.
C3_MismatchSkipped ==
  \A i \in Files :
    (Processed(i) /\ VersionMismatch(i)) =>
      /\ ~hist[i].stored
      /\ "Lookup:AAAPluginV" \notin Range(hist[i].steps)
      /\ [file |-> i, msg |-> "Unsupported AAAPluginAPIVersion for plugin"]
           \in Range(logged)
      /\ listing[i].cfg.Name \notin DOMAIN Protocols
      /\ Returned => /\ ret.err = NilErr /\ ~ret.isNil
                     /\ listing[i].cfg.Name \notin DOMAIN ret.aaa

\* a pass returned after skipping a module of a lower version and a module
\* of a higher version
C3_Witness ==
  /\ ReturnedRegistry
  /\ \E i, j \in Files :
       /\ VersionMismatch(i) /\ VersionMismatch(j)
       /\ modules[listing[i].cfg.Name].version.val < HostVersion(gen)
       /\ modules[listing[j].cfg.Name].version.val > HostVersion(gen)

\* --------------------------------------------------------------------- C4
\* C4 (as claimed): a returned registry has an entry under the declared
\* name of every descriptor that decodes and passes ABI resolution.
C4_LoadableRegistered ==
  ReturnedRegistry =>
    \A i \in Files : Loadable(i) => listing[i].cfg.Name \in DOMAIN ret.aaa

\* the Setup() call that generation 2 makes for descriptor i returned nil;
\* generation 1 makes no such call before storing
SetupPassed(i) == gen = 2 => hist[i].setup = "nil"

\* C4 (amended): a returned registry has an entry, holding the module's
\* implementation object, under the declared name of every descriptor that
\* decodes, passes ABI resolution and, in generation 2, whose guarded
\* Setup() call returned nil.
C4_LoadableSetUpRegistered ==
  ReturnedRegistry =>
    \A i \in Files :
      (Loadable(i) /\ SetupPassed(i)) =>
        /\ listing[i].cfg.Name \in DOMAIN ret.aaa
        /\ ret.aaa[listing[i].cfg.Name].Plugin = listing[i].cfg.Name

\* two loadable descriptors of different names are both in the registry
C4_Witness ==
  /\ ReturnedRegistry
  /\ \E i, j \in Files :
       /\ Loadable(i) /\ Loadable(j) /\ SetupPassed(i) /\ SetupPassed(j)
       /\ listing[i].cfg.Name # listing[j].cfg.Name
       /\ {listing[i].cfg.Name, listing[j].cfg.Name} \subseteq DOMAIN ret.aaa

\* --------------------------------------------------------------------- C5
\* C5: LoadAAA returns an error exactly when the directory cannot be opened
\* or listed, and then a nil registry; otherwise it returns a registry after
\* the loop has dealt with every entry: every regular .json entry went
\* through loadAAAPlugin, whatever failed for the entries before it.
C5_OnlyDirectoryErrors ==
  Returned =>
    /\ (ret.err # NilErr) <=> (dir # "ok")
    /\ (ret.err # NilErr) => (ret.isNil /\ ret.aaa = EmptyMap)
    /\ (ret.err = NilErr) =>
         /\ ~ret.isNil
         /\ \A i \in Files :
              /\ Processed(i)
              /\ IsCandidate(listing[i]) => hist[i].steps # <<>>

\* a pass returned a registry holding a descriptor that came after a
\* descriptor that failed
C5_Witness ==
  /\ Returned /\ ret.err = NilErr
  /\ \E i, j \in Files :
       /\ i < j
       /\ IsCandidate(listing[i]) /\ ~hist[i].stored
       /\ [file |-> i, msg |-> "Could not load plugin"] \in Range(logged)
       /\ hist[j].stored
       /\ listing[j].cfg.Name \in DOMAIN ret.aaa

\* --------------------------------------------------------------------- C6
\* C6 (as claimed): within one pass no implementation object has Setup()
\* called on it more than once, and when the pass returns a registry every
\* object that passed ABI resolution has had exactly one call.
C6_SetupExactlyOnce ==
  /\ \A n \in Names : Len(setupLog[n]) <= 1
  /\ ReturnedRegistry =>
       \A n \in Names : Declaring(n) # {} => Len(setupLog[n]) = 1

\* --------------------------------------------------------------------- C7
\* C7 (as claimed): when at least two loadable descriptors declare a name,
\* a returned registry has an entry under it whose config is that of the
\* one listed last.
C7_LastWins ==
  ReturnedRegistry =>
    \A n \in Names :
      Cardinality(Declaring(n)) >= 2 =>
        /\ n \in DOMAIN ret.aaa
        /\ ret.aaa[n].Cfg = listing[Max(Declaring(n))].cfg

\* the loadable descriptors declaring n that the pass stored
StoredBy(n) == {i \in Declaring(n) : SetupPassed(i)}

\* C7 (amended): when at least two loadable descriptors declare a name, a
\* returned registry has an entry under it exactly when one of them got
\* stored (generation 2: its guarded Setup() returned nil; generation 1:
\* always), and the entry's config is that of the last one stored.
C7_LastStoredWins ==
  ReturnedRegistry =>
    \A n \in Names :
      Cardinality(Declaring(n)) >= 2 =>
        /\ n \in DOMAIN ret.aaa <=> StoredBy(n) # {}
        /\ StoredBy(n) # {} =>
             ret.aaa[n].Cfg = listing[Max(StoredBy(n))].cfg

\* two stored descriptors of one name with different configs: the registry
\* has the config of the later one
C7_Witness ==
  /\ ReturnedRegistry
  /\ \E i, j \in Files :
       /\ i < j /\ Loadable(i) /\ Loadable(j)
       /\ hist[i].stored /\ hist[j].stored
       /\ listing[i].cfg.Name = listing[j].cfg.Name
       /\ listing[i].cfg # listing[j].cfg
       /\ ret.aaa[listing[j].cfg.Name].Cfg = listing[j].cfg

\* --------------------------------------------------------------------- C8
\* both passes of a load and a reload returned a registry
BothReturned == run = 2 /\ ReturnedRegistry /\ ~prev.isNil

\* C8 (as claimed): a load and a reload of an unchanged directory, listed
\* in any order, return registries with the same keys and, for every key,
\* the same config.
C8_ReloadSame ==
  BothReturned =>
    /\ DOMAIN ret.aaa = DOMAIN prev.aaa
    /\ \A n \in DOMAIN ret.aaa : ret.aaa[n].Cfg = prev.aaa[n].Cfg

\* the loadable descriptors declaring n all carry the same config
Unambiguous(n) == \A i, j \in Declaring(n) : listing[i].cfg = listing[j].cfg

\* C8 (amended): a load and a reload of an unchanged directory, listed in
\* any order, return registries with the same keys and, for every key whose
\* loadable descriptors all carry the same config, the same config.
C8_ReloadSameUnambiguous ==
  BothReturned =>
    /\ DOMAIN ret.aaa = DOMAIN prev.aaa
    /\ \A n \in DOMAIN ret.aaa :
         Unambiguous(n) => ret.aaa[n].Cfg = prev.aaa[n].Cfg

\* a reload that listed the directory in another order returned the same
\* two protocols
C8_Witness ==
  /\ BothReturned
  /\ listing[1].fname[1] # 1
  /\ DOMAIN ret.aaa = Names
  /\ \A n \in Names : ret.aaa[n].Cfg = prev.aaa[n].Cfg

\* --------------------------------------------------------------------- C9
\* C9: once the loop has dealt with a descriptor whose module lacks the
\* version symbol or exports it with another type than uint32, the
\* type-mismatch error was logged for it, the resolver stopped at the type
\* assertion (no version comparison, no entry-point lookup), and its name
\* is not in the map.
C9_UntypedVersionRejected ==
  \A i \in Files :
    (Processed(i) /\ VersionUntyped(i)) =>
      /\ [file |-> i,
          msg |-> "Unexpected type from AAAPluginAPIVersion symbol"]
           \in Range(logged)
      /\ hist[i].steps = <<"os.Open", "Decode", "plugin.Open",
                           "Lookup:AAAPluginAPIVersion", "assert:*uint32">>
      /\ ~hist[i].stored
      /\ listing[i].cfg.Name \notin DOMAIN Protocols

\* a pass returned after rejecting a module without the version symbol and
\* a module exporting it with another type
C9_Witness ==
  /\ ReturnedRegistry
  /\ \E i, j \in Files :
       /\ VersionUntyped(i) /\ VersionUntyped(j)
       /\ modules[listing[i].cfg.Name].version.type = "absent"
       /\ modules[listing[j].cfg.Name].version.type = "other"

\* -------------------------------------------------------------------- C10
\* C10: in a returned registry every key is the Cfg.Name of its entry (the
\* name declared in a descriptor, not a file name) and every entry has a
\* plugin; only regular files with the .json extension were read or stored;
\* with no loadable descriptor the registry is non-nil and empty.
C10_KeysAndSources ==
  /\ \A i \in Files :
       (hist[i].stored \/ hist[i].steps # <<>>) =>
         (listing[i].regular /\ Ext(listing[i].fname) = <<".", "json">>)
  /\ (Returned /\ ret.err = NilErr) =>
       /\ ~ret.isNil
       /\ \A n \in DOMAIN ret.aaa :
            /\ ret.aaa[n].Cfg.Name = n
            /\ ret.aaa[n].Plugin # NilPlugin
            /\ \E i \in Files : Decoded(i) /\ listing[i].cfg = ret.aaa[n].Cfg
       /\ (\A i \in Files : ~Loadable(i)) => ret.aaa = EmptyMap

\* a pass returned a registry with one protocol while a well-formed
\* descriptor of another name sat in a file without the .json extension
C10_Witness ==
  /\ ReturnedRegistry
  /\ \E i, j \in Files :
       /\ listing[i].regular /\ Ext(listing[i].fname) # <<".", "json">>
       /\ listing[i].decodes /\ PassesABI(listing[i].cfg.Name)
       /\ listing[i].cfg.Name \notin DOMAIN ret.aaa
       /\ hist[j].stored
       /\ DOMAIN ret.aaa = {listing[j].cfg.Name}
====
